---- MODULE Spec2Model ----
(***************************************************************************)
(* State-machine model of the 360 degree viewer: the orientation           *)
(* controller (PositionControls) and the scene coordinator                 *)
(* (NDLAThreeSixty) that wires one controller to the camera and one to     *)
(* every placed element.                                                   *)
(*                                                                         *)
(* Numbers.  Angles are fixed-point, one unit = 1/1000 rad; pointer        *)
(* coordinates are pixels.  The inputs are chosen so that every quotient   *)
(* delta / friction is exact in that unit.  Math.PI is 3142 units.         *)
(*                                                                         *)
(* Every handler runs to completion (single-threaded), so one action is    *)
(* one handler, with everything its listeners do in the same step.  A      *)
(* handler is written as a function from the state record St to the state *)
(* record after it, so that the code's statement order is kept.            *)
(***************************************************************************)
EXTENDS Integers, Sequences, FiniteSets, TLC

\* ------------------------------------------------------------------ bounds

\* Number of handlers run in one behaviour.
MaxSteps == 5
\* Number of update() and updateCylinder() calls in one behaviour.
MaxBuilds == 3

\* ------------------------------------------------------- program constants

PI == 3142
TwoPi == PI * 2
MAX_PITCH == PI \div 2
FOV_PANORAMA == 53
FOV_SPHERE == 75
CAMERA_FRICTION == 400
DEFAULT_FRICTION == 800
\* JavaScript null for keyStillDown (no key code is 0).
NULL == 0
\* camera.fov is a float the zoom makes fractional: it is held in
\* 1/FovUnit degrees.
FovUnit == 10
\* ZoomControls.minFov, in the unit of camera.fov.
minFov == 20 * FovUnit
\* ZoomControls.enableZoom: set in the constructor, never assigned again.
enableZoom == TRUE

ElementIds == {"e1", "e2"}
Ctrls == {"camera"} \cup ElementIds

\* this.controlActive is "mouse", "touch" or "keyboard"; "false" stands for
\* both falsy values the code uses (undefined after construction, false
\* after end()).

\* ------------------------------------------------------------------ inputs

\* pageX/pageY of mouse events and of touch points.
Points == {<<100, 100>>, <<160, 100>>}
\* movementX/movementY of mousemove; <<>> is a browser without them.
Movements == {<<>>, <<0, 0>>, <<-520, 520>>, <<0, -2800>>}
\* event.which of key events: left, down, Enter.
Keys == {37, 40, 13}
\* event.which of mouse events: left and right button.
Buttons == {1, 3}
\* Arguments <<yaw, pitch>> of setCameraPosition.
CameraPositions == {<<1000, 1300>>, <<-7000, 0>>}
\* options.cameraStartPosition; <<>> is "not given".
StartPositions == {<<>>}
\* startPosition of add().
ElementPositions == {[yaw |-> 500, pitch |-> 1400]}
\* The isPanorama argument of setSourceElement.
PanoramaArgs == {"true", "false", "undefined"}
\* event.touches.length of a touch event: the touch points on the screen.
TouchCounts == {1, 2}
\* The dollyScale argument of dollyIn and dollyOut as <<numerator,
\* denominator>>; <<>> is "not given".
DollyScales == {<<>>, <<1, 2>>, <<3, 1>>}
\* event.deltaY of a wheel event.
WheelDeltas == {-100, 0, 100}
\* event.touches of the touch events the zoom controller sees: one finger,
\* two fingers 5 and 10 pixels apart, two fingers on one point.
ZoomTouches ==
    {<< <<10, 10>> >>, << <<10, 10>>, <<13, 14>> >>,
     << <<10, 10>>, <<16, 18>> >>, << <<10, 10>>, <<10, 10>> >>}
\* event.key of the key events the zoom controller sees.
ZoomKeys == {"-", "+", "a"}

VARIABLES
    \* PositionControls, one per controller
    controlActive, alpha, beta, startPosition, prevPosition, keyStillDown,
    controlsIsPanorama, startY, startX, listeners,
    \* NDLAThreeSixty
    cameraRotationY, cameraRotationX, cameraFov, fieldOfView, isPanorama,
    preventDeviceOrientation, threeElements, rotationY, rotationX, hasControls,
    preventCameraMovement,
    \* ZoomControls (its object is the camera: object.fov is cameraFov)
    maxFov, dollyStart,
    \* history of the last handler
    sceneMode, sessionOpen, emitted, hostEvents, startReturned, call, steps,
    \* the dolly method the last handler called, and the number of
    \* dollyIn() calls with the default scale since any other dolly call
    dollyCalled, dollyIns,
    \* NDLAThreeSixty, rendering: the world geometry ("none", "sphere" or
    \* "cylinder"), the flag ("undefined", "true" or "false") and whether an
    \* id of the animation frame requested last (renderLoopId, NULL for
    \* null), and the ids of the render callbacks the browser still holds
    sphere, triggerFirstRenderEvent, renderLoopId, frames,
    \* the numbers of geometry builds and of firstrender events so far
    builds, firstrenders

vars == <<controlActive, alpha, beta, startPosition, prevPosition, keyStillDown,
          controlsIsPanorama, startY, startX, listeners,
          cameraRotationY, cameraRotationX, cameraFov, fieldOfView, isPanorama,
          preventDeviceOrientation, threeElements, rotationY, rotationX,
          hasControls, maxFov, dollyStart, sceneMode, sessionOpen, emitted,
          hostEvents, startReturned, call, steps, dollyCalled, dollyIns,
          sphere, triggerFirstRenderEvent, renderLoopId, frames, builds,
          firstrenders,
          preventCameraMovement>>

\* The state as one record, handed through the handlers.
St == [controlActive |-> controlActive, alpha |-> alpha, beta |-> beta,
       startPosition |-> startPosition, prevPosition |-> prevPosition,
       keyStillDown |-> keyStillDown,
       controlsIsPanorama |-> controlsIsPanorama,
       startY |-> startY, startX |-> startX, listeners |-> listeners,
       cameraRotationY |-> cameraRotationY,
       cameraRotationX |-> cameraRotationX,
       cameraFov |-> cameraFov, fieldOfView |-> fieldOfView,
       isPanorama |-> isPanorama,
       preventDeviceOrientation |-> preventDeviceOrientation,
       threeElements |-> threeElements,
       rotationY |-> rotationY, rotationX |-> rotationX,
       hasControls |-> hasControls,
       preventCameraMovement |-> preventCameraMovement,
       sceneMode |-> sceneMode,
       sessionOpen |-> sessionOpen,
       emitted |-> emitted, hostEvents |-> hostEvents,
       startReturned |-> startReturned, call |-> call, steps |-> steps,
       maxFov |-> maxFov, dollyStart |-> dollyStart,
       dollyCalled |-> dollyCalled, dollyIns |-> dollyIns,
       sphere |-> sphere,
       triggerFirstRenderEvent |-> triggerFirstRenderEvent,
       renderLoopId |-> renderLoopId, frames |-> frames, builds |-> builds,
       firstrenders |-> firstrenders]

Commit(s) ==
    /\ controlActive' = s.controlActive
    /\ alpha' = s.alpha
    /\ beta' = s.beta
    /\ startPosition' = s.startPosition
    /\ prevPosition' = s.prevPosition
    /\ keyStillDown' = s.keyStillDown
    /\ controlsIsPanorama' = s.controlsIsPanorama
    /\ startY' = s.startY
    /\ startX' = s.startX
    /\ listeners' = s.listeners
    /\ cameraRotationY' = s.cameraRotationY
    /\ cameraRotationX' = s.cameraRotationX
    /\ cameraFov' = s.cameraFov
    /\ fieldOfView' = s.fieldOfView
    /\ isPanorama' = s.isPanorama
    /\ preventDeviceOrientation' = s.preventDeviceOrientation
    /\ threeElements' = s.threeElements
    /\ rotationY' = s.rotationY
    /\ rotationX' = s.rotationX
    /\ hasControls' = s.hasControls
    /\ preventCameraMovement' = s.preventCameraMovement
    /\ sceneMode' = s.sceneMode
    /\ sessionOpen' = s.sessionOpen
    /\ emitted' = s.emitted
    /\ hostEvents' = s.hostEvents
    /\ startReturned' = s.startReturned
    /\ call' = s.call
    /\ steps' = s.steps
    /\ maxFov' = s.maxFov
    /\ dollyStart' = s.dollyStart
    /\ dollyCalled' = s.dollyCalled
    /\ dollyIns' = s.dollyIns
    /\ sphere' = s.sphere
    /\ triggerFirstRenderEvent' = s.triggerFirstRenderEvent
    /\ renderLoopId' = s.renderLoopId
    /\ frames' = s.frames
    /\ builds' = s.builds
    /\ firstrenders' = s.firstrenders

\* A handler begins: the history of the previous one is dropped.
Begin(op, c) ==
    [St EXCEPT !.emitted = <<>>, !.hostEvents = <<>>,
               !.startReturned = "none", !.dollyCalled = "none",
               !.call = [op |-> op, ctrl |-> c]]

\* A key event: call records event.which.
BeginKey(op, c, which) ==
    [Begin(op, c) EXCEPT !.call = [op |-> op, ctrl |-> c, which |-> which]]

\* A touch event: call records event.touches.length.
BeginTouch(op, c, touches) ==
    [Begin(op, c) EXCEPT
         !.call = [op |-> op, ctrl |-> c, touches |-> touches]]

\* ------------------------------------------------------------- arithmetic

\* JavaScript a % m: the sign of the dividend.
JsRem(a, m) == IF a >= 0 THEN a % m ELSE -((-a) % m)

\* JavaScript deltaX / friction, in angle units.
Quotient(delta, friction) ==
    IF delta >= 0 THEN (delta * 1000) \div friction
    ELSE -(((-delta) * 1000) \div friction)

toRad(value) == (value * PI) \div 180

\* this.friction * 0.75 and this.friction * 0.025
TouchFriction(friction) == (friction * 3) \div 4
KeyFriction(friction) == friction \div 40

Friction(c) == IF c = "camera" THEN CAMERA_FRICTION ELSE DEFAULT_FRICTION
\* this.invert = shouldInvert ? 1 : -1
Invert(c) == IF c = "camera" THEN 1 ELSE -1

\* ------------------------------------------------------------------ events

\* An event a controller triggers.  inSession tells whether, when it was
\* triggered, an accepted movestart of that controller was not yet followed
\* by a movestop; deltaX, deltaY, friction and betaBefore are move()'s
\* arguments and this.beta on entry.
Event(s, c, type) ==
    [ctrl |-> c, type |-> type, inSession |-> s.sessionOpen[c],
     deltaX |-> 0, deltaY |-> 0, friction |-> 0, betaBefore |-> 0,
     alphaDelta |-> 0, betaDelta |-> 0, alpha |-> 0, beta |-> 0]

\* An event the coordinator triggers towards the host.
HostEvent(type, c, prevented, yaw, pitch) ==
    [type |-> type, ctrl |-> c, prevented |-> prevented,
     yaw |-> yaw, pitch |-> pitch]

Emit(s, ev) == [s EXCEPT !.emitted = Append(@, ev)]
Relay(s, hev) == [s EXCEPT !.hostEvents = Append(@, hev)]

\* ------------------------------------------- NDLAThreeSixty: the listeners

\* cameraControls.on('movestart'): veto is what the host's listeners do to
\* the relayed event.
cameraMovestart(s, veto) ==
    Relay([s EXCEPT !.startY["camera"] = <<s.cameraRotationY>>,
                    !.startX["camera"] = <<s.cameraRotationX>>,
                    !.preventDeviceOrientation = TRUE],
          HostEvent("movestart", "camera", veto, 0, 0))


\* The camera's move listener without "if (yaw < 0) yaw += 2 PI".
cameraMove_NoWrap(s, ev) ==
    LET yaw0 == s.startY["camera"][1] + ev.alpha
        pitch0 == s.startX["camera"][1] + ev.beta
        radsFromCameraCenter == toRad(s.fieldOfView) \div 2
        pitch == IF pitch0 + radsFromCameraCenter > MAX_PITCH
                 THEN MAX_PITCH - radsFromCameraCenter
                 ELSE IF pitch0 - radsFromCameraCenter < -MAX_PITCH
                      THEN -MAX_PITCH + radsFromCameraCenter
                      ELSE pitch0
    IN  [s EXCEPT !.cameraRotationY = JsRem(yaw0, TwoPi),
                  !.cameraRotationX = pitch]

\* The camera's move listener subtracting alpha from the start yaw.
cameraMove_SubtractsAlpha(s, ev) ==
    LET yaw0 == s.startY["camera"][1] - ev.alpha
        pitch0 == s.startX["camera"][1] + ev.beta
        radsFromCameraCenter == toRad(s.fieldOfView) \div 2
        pitch == IF pitch0 + radsFromCameraCenter > MAX_PITCH
                 THEN MAX_PITCH - radsFromCameraCenter
                 ELSE IF pitch0 - radsFromCameraCenter < -MAX_PITCH
                      THEN -MAX_PITCH + radsFromCameraCenter
                      ELSE pitch0
        yaw1 == JsRem(yaw0, TwoPi)
        yaw == IF yaw1 < 0 THEN yaw1 + TwoPi ELSE yaw1
    IN  [s EXCEPT !.cameraRotationY = yaw, !.cameraRotationX = pitch]

\* cameraControls.on('move')
cameraMove(s, ev) ==
    LET yaw0 == s.startY["camera"][1] + ev.alpha
        pitch0 == s.startX["camera"][1] + ev.beta
        radsFromCameraCenter == toRad(s.fieldOfView) \div 2
        pitch == IF pitch0 + radsFromCameraCenter > MAX_PITCH
                 THEN MAX_PITCH - radsFromCameraCenter
                 ELSE IF pitch0 - radsFromCameraCenter < -MAX_PITCH
                      THEN -MAX_PITCH + radsFromCameraCenter
                      ELSE pitch0
        yaw1 == JsRem(yaw0, TwoPi)
        yaw == IF yaw1 < 0 THEN yaw1 + TwoPi ELSE yaw1
    IN  [s EXCEPT !.cameraRotationY = yaw, !.cameraRotationX = pitch]

\* cameraControls.on('movestop')
cameraMovestop(s) ==
    Relay([s EXCEPT !.preventDeviceOrientation = FALSE],
          HostEvent("movestop", "camera", FALSE,
                    -s.cameraRotationY, s.cameraRotationX))

\* NDLAThreeSixty.setElementPosition (the rotation; the position on the
\* sphere is a function of the same yaw and pitch)
setElementPosition(s, e, position) ==
    [s EXCEPT !.rotationY[e] = -position.yaw,
              !.rotationX[e] = position.pitch]

\* elementControls.on('movestart')
elementMovestart(s, e, veto) ==
    Relay([s EXCEPT !.startY[e] = <<-s.rotationY[e]>>,
                    !.startX[e] = <<s.rotationX[e]>>,
                    !.preventDeviceOrientation = TRUE],
          HostEvent("movestart", e, veto, 0, 0))

\* elementControls.on('move') whose closure holds the element added last,
\* not its own.
elementMove_LastAdded(s, e, ev) ==
    setElementPosition(s, s.threeElements[Len(s.threeElements)],
                       [yaw |-> s.startY[e][1] + ev.alpha,
                        pitch |-> s.startX[e][1] - ev.beta])

\* elementControls.on('move')
elementMove(s, e, ev) ==
    setElementPosition(s, e, [yaw |-> s.startY[e][1] + ev.alpha,
                              pitch |-> s.startX[e][1] - ev.beta])

\* elementControls.on('movestop')
elementMovestop(s, e) ==
    Relay([s EXCEPT !.preventDeviceOrientation = FALSE],
          HostEvent("movestop", e, FALSE, -s.rotationY[e], s.rotationX[e]))

\* this.trigger(...) of a controller: its listeners run synchronously.
triggerMovestart(s, c, veto) ==
    LET s1 == Emit(s, Event(s, c, "movestart"))
    IN  IF c = "camera" THEN cameraMovestart(s1, veto)
        ELSE elementMovestart(s1, c, veto)

triggerMove(s, c, ev) ==
    LET s1 == Emit(s, ev)
    IN  IF c = "camera" THEN cameraMove(s1, ev) ELSE elementMove(s1, c, ev)

triggerMovestop(s, c) ==
    LET s1 == Emit(s, Event(s, c, "movestop"))
    IN  IF c = "camera" THEN cameraMovestop(s1) ELSE elementMovestop(s1, c)

\* ------------------------------------------------------- PositionControls


\* start() without the check for an active control.
start_NoActiveCheck(s, c, x, y, control, veto) ==
    LET s1 == triggerMovestart(s, c, veto)
    IN  IF veto
        THEN [s1 EXCEPT !.startReturned = "false"]
        ELSE [s1 EXCEPT !.startPosition[c] = <<x, y>>,
                        !.alpha[c] = 0,
                        !.beta[c] = 0,
                        !.controlActive[c] = control,
                        !.sessionOpen[c] = TRUE,
                        !.startReturned = "true"]

\* start() that does not look at defaultPrevented.
start_IgnoresVeto(s, c, x, y, control, veto) ==
    IF s.controlActive[c] # "false"
    THEN [s EXCEPT !.startReturned = "false"]
    ELSE [triggerMovestart(s, c, veto) EXCEPT
              !.startPosition[c] = <<x, y>>,
              !.alpha[c] = 0,
              !.beta[c] = 0,
              !.controlActive[c] = control,
              !.sessionOpen[c] = TRUE,
              !.startReturned = "true"]

\* start(x, y, control, event); startReturned is its return value.
start(s, c, x, y, control, veto) ==
    IF s.controlActive[c] # "false"
    THEN [s EXCEPT !.startReturned = "false"]
    ELSE LET s1 == triggerMovestart(s, c, veto)
         IN  IF veto
             THEN [s1 EXCEPT !.startReturned = "false"]
             ELSE [s1 EXCEPT !.startPosition[c] = <<x, y>>,
                             !.alpha[c] = 0,
                             !.beta[c] = 0,
                             !.controlActive[c] = control,
                             !.sessionOpen[c] = TRUE,
                             !.startReturned = "true"]

\* end()
end(s, c) ==
    LET s1 == [s EXCEPT !.controlActive[c] = "false"]
        s2 == triggerMovestop(s1, c)
    IN  [s2 EXCEPT !.sessionOpen[c] = FALSE]

\* The clamp of this.beta at the end of move().
clampBeta(b) ==
    LET ninety == PI \div 2
    IN  IF b > ninety THEN ninety
        ELSE IF b < -ninety THEN -ninety ELSE b


\* move() without the panorama test.
move_NoPanoramaCheck(s, c, deltaX, deltaY0, friction) ==
    LET alphaDelta == Quotient(deltaX, friction)
        betaDelta == Quotient(deltaY0, friction)
        newAlpha == JsRem(s.alpha[c] + alphaDelta, TwoPi)
        newBeta == clampBeta(JsRem(s.beta[c] + betaDelta, TwoPi))
        ev == [Event(s, c, "move") EXCEPT
                  !.deltaX = deltaX, !.deltaY = deltaY0,
                  !.friction = friction, !.betaBefore = s.beta[c],
                  !.alphaDelta = alphaDelta, !.betaDelta = betaDelta,
                  !.alpha = newAlpha, !.beta = newBeta]
        s1 == [s EXCEPT !.alpha[c] = newAlpha, !.beta[c] = newBeta]
    IN  triggerMove(s1, c, ev)

\* move(deltaX, deltaY, friction)
move(s, c, deltaX, deltaY0, friction) ==
    LET deltaY == IF s.controlsIsPanorama[c] THEN 0 ELSE deltaY0
        alphaDelta == Quotient(deltaX, friction)
        betaDelta == Quotient(deltaY, friction)
        newAlpha == JsRem(s.alpha[c] + alphaDelta, TwoPi)
        newBeta == clampBeta(JsRem(s.beta[c] + betaDelta, TwoPi))
        ev == [Event(s, c, "move") EXCEPT
                  !.deltaX = deltaX, !.deltaY = deltaY0,
                  !.friction = friction, !.betaBefore = s.beta[c],
                  !.alphaDelta = alphaDelta, !.betaDelta = betaDelta,
                  !.alpha = newAlpha, !.beta = newBeta]
        s1 == [s EXCEPT !.alpha[c] = newAlpha, !.beta[c] = newBeta]
    IN  triggerMove(s1, c, ev)

addListeners(s, c, types) == [s EXCEPT !.listeners[c] = @ \cup types]
removeListeners(s, c, types) == [s EXCEPT !.listeners[c] = @ \ types]

\* handleMouseDown(event)
handleMouseDown(s, c, x, y, which, veto) ==
    IF which # 1 THEN s
    ELSE LET s1 == start(s, c, x, y, "mouse", veto)
         IN  IF s1.startReturned # "true" THEN s1
             ELSE addListeners(s1, c, {"mousemove", "mouseup"})

\* handleMouseMove(event): movement is <<movementX, movementY>>, or <<>>
\* where the browser has neither.
handleMouseMove(s, c, movement, x, y) ==
    LET old == movement = <<>>
        prev == IF s.prevPosition[c] = <<>> THEN s.startPosition[c]
                ELSE s.prevPosition[c]
        xDiff == IF old THEN x - prev[1] ELSE movement[1]
        yDiff == IF old THEN y - prev[2] ELSE movement[2]
        s1 == IF old THEN [s EXCEPT !.prevPosition[c] = <<x, y>>] ELSE s
    IN  IF xDiff # 0 \/ yDiff # 0
        THEN move(s1, c, xDiff, yDiff, Friction(c))
        ELSE s1


\* handleMouseUp() that leaves its window listeners registered.
handleMouseUp_KeepsListeners(s, c) ==
    end([s EXCEPT !.prevPosition[c] = <<>>], c)

\* handleMouseUp()
handleMouseUp(s, c) ==
    end(removeListeners([s EXCEPT !.prevPosition[c] = <<>>], c,
                        {"mousemove", "mouseup"}), c)

\* handleTouchStart(event): x, y are changedTouches[0].pageX/pageY.
handleTouchStart(s, c, x, y, veto) ==
    LET s1 == start(s, c, x, y, "touch", veto)
    IN  IF s1.startReturned # "true" THEN s1
        ELSE addListeners(s1, c, {"touchmove", "touchend"})

\* handleTouchMove(event)
handleTouchMove(s, c, cancelable, x, y) ==
    IF ~cancelable THEN s
    ELSE LET prev == IF s.prevPosition[c] = <<>> THEN s.startPosition[c]
                     ELSE s.prevPosition[c]
             s1 == [s EXCEPT !.prevPosition[c] = <<x, y>>]
         IN  move(s1, c, x - prev[1], y - prev[2],
                  TouchFriction(Friction(c)))


\* handleTouchEnd() that leaves its listeners registered.
handleTouchEnd_KeepsListeners(s, c) ==
    end([s EXCEPT !.prevPosition[c] = <<>>], c)

\* handleTouchEnd()
handleTouchEnd(s, c) ==
    end(removeListeners([s EXCEPT !.prevPosition[c] = <<>>], c,
                        {"touchmove", "touchend"}), c)

isArrowKey(which) == which \in {37, 100, 38, 104, 39, 102, 40, 98}

\* The switch of handleKeyDown adding and subtracting 1, not this.invert.
keyDelta_IgnoresInvert(which, invert) ==
    IF which \in {37, 100} THEN <<1, 0>>
    ELSE IF which \in {38, 104} THEN <<0, 1>>
    ELSE IF which \in {39, 102} THEN <<-1, 0>>
    ELSE IF which \in {40, 98} THEN <<0, -1>>
    ELSE <<0, 0>>

\* The switch of handleKeyDown: <<delta.x, delta.y>>.
keyDelta(which, invert) ==
    IF which \in {37, 100} THEN <<invert, 0>>
    ELSE IF which \in {38, 104} THEN <<0, invert>>
    ELSE IF which \in {39, 102} THEN <<-invert, 0>>
    ELSE IF which \in {40, 98} THEN <<0, -invert>>
    ELSE <<0, 0>>

\* handleKeyDown(event) remembering the key whatever start() returns.
handleKeyDown_KeepsKeyAnyway(s, c, which, veto) ==
    IF ~isArrowKey(which) THEN s
    ELSE LET s1 == IF s.keyStillDown[c] = NULL
                   THEN LET t == start(s, c, 0, 0, "keyboard", veto)
                        IN  addListeners(
                              [t EXCEPT !.keyStillDown[c] = which],
                              c, {"keyup"})
                   ELSE s
         IN  IF s1.keyStillDown[c] # which THEN s1
             ELSE LET delta == keyDelta(which, Invert(c))
                  IN  move(s1, c, delta[1], delta[2],
                           KeyFriction(Friction(c)))

\* handleKeyDown(event)
handleKeyDown(s, c, which, veto) ==
    IF ~isArrowKey(which) THEN s
    ELSE LET s1 == IF s.keyStillDown[c] = NULL
                   THEN LET t == start(s, c, 0, 0, "keyboard", veto)
                        IN  IF t.startReturned = "true"
                            THEN addListeners(
                                   [t EXCEPT !.keyStillDown[c] = which],
                                   c, {"keyup"})
                            ELSE t
                   ELSE s
         IN  IF s1.keyStillDown[c] # which THEN s1
             ELSE LET delta == keyDelta(which, Invert(c))
                  IN  move(s1, c, delta[1], delta[2],
                           KeyFriction(Friction(c)))

\* handleKeyUp() without "this.keyStillDown = null".
handleKeyUp_KeepsKey(s, c) ==
    end(removeListeners(s, c, {"keyup"}), c)

\* handleKeyUp()
handleKeyUp(s, c) ==
    end(removeListeners([s EXCEPT !.keyStillDown[c] = NULL], c, {"keyup"}),
        c)

\* setPanorama(state)
setPanorama(s, c, state) ==
    IF state \notin {"true", "false"} THEN s
    ELSE [s EXCEPT !.controlsIsPanorama[c] = (state = "true")]

\* ---------------------------------------------------------- NDLAThreeSixty


\* setCameraPosition() without the test of preventDeviceOrientation.
setCameraPosition_NoGuard(s, yaw, pitch) ==
    Relay([s EXCEPT !.cameraRotationY = -yaw,
                    !.cameraRotationX =
                        IF s.isPanorama = "true" THEN 0 ELSE pitch],
          HostEvent("movestop", "none", FALSE, yaw, pitch))

\* setCameraPosition(yaw, pitch)
setCameraPosition(s, yaw, pitch) ==
    IF s.preventDeviceOrientation THEN s
    ELSE Relay([s EXCEPT !.cameraRotationY = -yaw,
                         !.cameraRotationX =
                             IF s.isPanorama = "true" THEN 0 ELSE pitch],
               HostEvent("movestop", "none", FALSE, yaw, pitch))

\* setSourceElement(element, isPanorama)
setSourceElement(s, arg) ==
    setPanorama([s EXCEPT !.isPanorama = arg,
                          !.cameraFov = (IF arg = "true" THEN FOV_PANORAMA
                                         ELSE FOV_SPHERE) * FovUnit,
                          !.sceneMode = IF arg = "true" THEN "panorama"
                                        ELSE "sphere"],
                "camera", arg)

\* getCurrentPosition(): what the host reads as the camera's position.
getCurrentPosition(s) ==
    [yaw |-> -s.cameraRotationY, pitch |-> s.cameraRotationX]

\* add(element, startPosition, enableControls)
add(s, e, position, enableControls) ==
    setElementPosition(
        [s EXCEPT !.threeElements = Append(@, e),
                  !.hasControls[e] = enableControls],
        e, position)

\* setPreventCameraMovement(preventCameraMovement)
setPreventCameraMovement(s, value) ==
    [s EXCEPT !.preventCameraMovement = value]

\* The focus listener add() registers on the element, inside its
\* if (enableControls) block.
focus(s, e, defaultPrevented) ==
    LET s1 == IF ~defaultPrevented /\ ~s.preventCameraMovement
              THEN setCameraPosition(s, -s.rotationY[e], s.rotationX[e])
              ELSE s
    IN  setPreventCameraMovement(s1, FALSE)

\* Array.prototype.indexOf: 0 stands for JavaScript's -1.
indexOf(seq, x) ==
    IF \E i \in 1..Len(seq) : seq[i] = x
    THEN CHOOSE i \in 1..Len(seq) :
             seq[i] = x /\ \A j \in 1..(i - 1) : seq[j] # x
    ELSE 0

\* Array.prototype.splice(from, 1): a from of -1 (here 0) counts from the
\* end of the array and names its last entry.
splice(seq, from) ==
    LET at == IF from = 0 THEN Len(seq) ELSE from
    IN  IF seq = <<>> THEN seq
        ELSE SubSeq(seq, 1, at - 1) \o SubSeq(seq, at + 1, Len(seq))

\* remove(threeElement): the entry leaves threeElements and the object the
\* cssScene; the element's PositionControls and its listeners stay.
remove(s, x) ==
    [s EXCEPT !.threeElements = splice(@, indexOf(@, x))]

\* update(): disposeSphere() if there is one, createSphere()
update(s) ==
    [s EXCEPT !.sphere = "sphere", !.triggerFirstRenderEvent = "true",
              !.builds = @ + 1]

\* updateCylinder(): disposeSphere() if there is one, createCylinder()
updateCylinder(s) ==
    [s EXCEPT !.sphere = "cylinder", !.triggerFirstRenderEvent = "true",
              !.builds = @ + 1]

\* this.renderLoopId = window.requestAnimationFrame(() => this.render()):
\* the browser hands out an id it has not handed out before (here: one that
\* neither a held callback nor renderLoopId still names).
requestAnimationFrame(s) ==
    LET id == CHOOSE n \in 1..(Cardinality(s.frames) + 2) :
                  /\ n \notin s.frames \cup {s.renderLoopId}
                  /\ \A m \in 1..(n - 1) :
                         m \in s.frames \cup {s.renderLoopId}
    IN  [s EXCEPT !.renderLoopId = id, !.frames = @ \cup {id}]

\* window.cancelAnimationFrame(id): the callback with that id is dropped;
\* null and the id of a callback already run name none.
cancelAnimationFrame(s, id) == [s EXCEPT !.frames = @ \ {id}]

\* render() leaving triggerFirstRenderEvent set.
render_KeepsFlag(s) ==
    LET s1 == requestAnimationFrame(s)
    IN  IF s1.triggerFirstRenderEvent = "true"
        THEN Relay([s1 EXCEPT !.firstrenders = @ + 1],
                   HostEvent("firstrender", "none", FALSE, 0, 0))
        ELSE s1

\* render(): draws, requests the next frame, triggers firstrender
render(s) ==
    LET s1 == requestAnimationFrame(s)
    IN  IF s1.triggerFirstRenderEvent = "true"
        THEN Relay([s1 EXCEPT !.triggerFirstRenderEvent = "false",
                              !.firstrenders = @ + 1],
                   HostEvent("firstrender", "none", FALSE, 0, 0))
        ELSE s1

\* startRendering() without the test of renderLoopId.
startRendering_NoGuard(s) ==
    render(s)

\* startRendering(); its own animation frame callback only reorders the
\* renderers' DOM elements.
startRendering(s) ==
    IF s.renderLoopId # NULL THEN s ELSE render(s)

\* stopRendering()
stopRendering(s) ==
    [cancelAnimationFrame(s, s.renderLoopId) EXCEPT !.renderLoopId = NULL]

\* ------------------------------------------------------------ ZoomControls

\* Calls of dollyIn() with the default scale after which the field of view
\* is compared with the bound it has converged to.
ConvergeCalls == 26

\* getZoomScale(): Math.pow(0.95, zoomSpeed) with zoomSpeed 1.0, as
\* <<numerator, denominator>>.
getZoomScale == <<95, 100>>

\* Math.max(this.minFov, Math.min(this.maxFov, fov))
clampFov(s, fov) ==
    LET upper == IF fov < s.maxFov THEN fov ELSE s.maxFov
    IN  IF upper > minFov THEN upper ELSE minFov

\* The count of successive dollyIn() calls with the default scale.
countDollyIn(s, dollyScale) ==
    IF dollyScale = getZoomScale
    THEN (IF s.dollyIns < ConvergeCalls THEN s.dollyIns + 1 ELSE s.dollyIns)
    ELSE 0

\* dollyIn() dividing by the scale, as dollyOut() does.
dollyIn_Divides(s, dollyScale0) ==
    LET dollyScale == IF dollyScale0 = <<>> THEN getZoomScale ELSE dollyScale0
    IN  [s EXCEPT !.cameraFov =
                      clampFov(s, (@ * dollyScale[2]) \div dollyScale[1]),
                  !.dollyCalled = "in",
                  !.dollyIns = countDollyIn(s, dollyScale)]

\* dollyIn(dollyScale), the camera being a PerspectiveCamera
dollyIn(s, dollyScale0) ==
    LET dollyScale == IF dollyScale0 = <<>> THEN getZoomScale ELSE dollyScale0
    IN  [s EXCEPT !.cameraFov =
                      clampFov(s, (@ * dollyScale[1]) \div dollyScale[2]),
                  !.dollyCalled = "in",
                  !.dollyIns = countDollyIn(s, dollyScale)]

\* dollyOut() without Math.min(this.maxFov, ...).
dollyOut_NoUpperBound(s, dollyScale0) ==
    LET dollyScale == IF dollyScale0 = <<>> THEN getZoomScale ELSE dollyScale0
        fov == (s.cameraFov * dollyScale[2]) \div dollyScale[1]
    IN  [s EXCEPT !.cameraFov = IF fov > minFov THEN fov ELSE minFov,
                  !.dollyCalled = "out",
                  !.dollyIns = 0]

\* dollyOut(dollyScale), the camera being a PerspectiveCamera
dollyOut(s, dollyScale0) ==
    LET dollyScale == IF dollyScale0 = <<>> THEN getZoomScale ELSE dollyScale0
    IN  [s EXCEPT !.cameraFov =
                      clampFov(s, (@ * dollyScale[2]) \div dollyScale[1]),
                  !.dollyCalled = "out",
                  !.dollyIns = 0]

handleMouseWheel(s, deltaY) ==
    IF deltaY < 0 THEN dollyIn(s, getZoomScale)
    ELSE IF deltaY > 0 THEN dollyOut(s, getZoomScale)
    ELSE s

\* Math.sqrt of a square number.
sqrt(n) == CHOOSE k \in 0..n : k * k <= n /\ (k + 1) * (k + 1) > n

\* The distance between event.touches[0] and event.touches[1].
distance(touches) ==
    LET dx == touches[1][1] - touches[2][1]
        dy == touches[1][2] - touches[2][2]
    IN  sqrt(dx * dx + dy * dy)

handleTouchStartDolly(s, touches) ==
    [s EXCEPT !.dollyStart = distance(touches)]

\* handleTouchMoveDolly() ending with dollyStart.copy(dollyEnd).
handleTouchMoveDolly_UpdatesStart(s, touches) ==
    LET dollyEnd == distance(touches)
        below == s.dollyStart # 0 /\ dollyEnd < s.dollyStart
        above == IF s.dollyStart = 0 THEN dollyEnd > 0
                 ELSE dollyEnd > s.dollyStart
        s1 == [s EXCEPT !.dollyStart = dollyEnd]
    IN  IF below THEN dollyOut(s1, <<>>)
        ELSE IF above THEN dollyIn(s1, <<>>)
        ELSE s1

\* dollyDelta.y = Math.pow(dollyEnd.y / dollyStart.y, 1.0): x/0 is Infinity
\* for x > 0 and 0/0 is NaN, which is neither below nor above 1. dollyEnd
\* and dollyDelta are written and read here only.
handleTouchMoveDolly(s, touches) ==
    LET dollyEnd == distance(touches)
        below == s.dollyStart # 0 /\ dollyEnd < s.dollyStart
        above == IF s.dollyStart = 0 THEN dollyEnd > 0
                 ELSE dollyEnd > s.dollyStart
    IN  IF below THEN dollyOut(s, <<>>)
        ELSE IF above THEN dollyIn(s, <<>>)
        ELSE s

\* ZoomControls.handleKeyDown
zoomHandleKeyDown(s, key) ==
    IF key = "-" THEN dollyOut(s, <<>>)
    ELSE IF key = "+" THEN dollyIn(s, <<>>)
    ELSE s

onTouchStart(s, touches) ==
    IF ~enableZoom THEN s
    ELSE IF Len(touches) = 2 THEN handleTouchStartDolly(s, touches)
    ELSE s

onTouchMove(s, touches) ==
    IF ~enableZoom THEN s
    ELSE IF Len(touches) = 2 THEN handleTouchMoveDolly(s, touches)
    ELSE s

onMouseWheel(s, deltaY) ==
    IF ~enableZoom THEN s ELSE handleMouseWheel(s, deltaY)

onKeyDown(s, key) ==
    IF ~enableZoom THEN s ELSE zoomHandleKeyDown(s, key)

\* ----------------------------------------------------------------- actions

\* The state after construction: new NDLAThreeSixty(sourceElement, options)
\* with options.isPanorama and options.cameraStartPosition; the constructor's
\* own setCameraPosition runs before this.isPanorama is ever assigned. The
\* zoom controller is constructed for the scene's camera with the same
\* isPanorama: new ZoomControls(camera, element, isPanorama).
Init ==
    \E optIsPanorama \in BOOLEAN, camPos \in StartPositions :
        LET yaw == IF camPos = <<>> THEN -((PI * 2) \div 3) ELSE camPos[1]
            pitch == IF camPos = <<>> THEN 0 ELSE camPos[2]
        IN  /\ controlActive = [c \in Ctrls |-> "false"]
            /\ alpha = [c \in Ctrls |-> 0]
            /\ beta = [c \in Ctrls |-> 0]
            /\ startPosition = [c \in Ctrls |-> <<>>]
            /\ prevPosition = [c \in Ctrls |-> <<>>]
            /\ keyStillDown = [c \in Ctrls |-> NULL]
            /\ controlsIsPanorama =
                   [c \in Ctrls |-> IF c = "camera" THEN optIsPanorama
                                    ELSE FALSE]
            /\ startY = [c \in Ctrls |-> <<>>]
            /\ startX = [c \in Ctrls |-> <<>>]
            /\ listeners = [c \in Ctrls |-> {}]
            /\ cameraRotationY = -yaw
            /\ cameraRotationX = pitch
            /\ fieldOfView = IF optIsPanorama THEN FOV_PANORAMA ELSE FOV_SPHERE
            /\ cameraFov = (IF optIsPanorama THEN FOV_PANORAMA
                            ELSE FOV_SPHERE) * FovUnit
            /\ maxFov = (IF optIsPanorama THEN FOV_PANORAMA
                         ELSE FOV_SPHERE) * FovUnit
            /\ dollyStart = 0
            /\ dollyCalled = "none"
            /\ dollyIns = 0
            /\ sphere = "none"
            /\ triggerFirstRenderEvent = "undefined"
            /\ renderLoopId = NULL
            /\ frames = {}
            /\ builds = 0
            /\ firstrenders = 0
            /\ isPanorama = "undefined"
            /\ preventDeviceOrientation = FALSE
            /\ threeElements = <<>>
            /\ rotationY = [e \in ElementIds |-> 0]
            /\ rotationX = [e \in ElementIds |-> 0]
            /\ hasControls = [e \in ElementIds |-> FALSE]
            /\ preventCameraMovement = FALSE
            /\ sceneMode = IF optIsPanorama THEN "panorama" ELSE "sphere"
            /\ sessionOpen = [c \in Ctrls |-> FALSE]
            /\ emitted = <<>>
            /\ hostEvents = <<>>
            /\ startReturned = "none"
            /\ call = [op |-> "constructor", ctrl |-> "none"]
            /\ steps = 0

\* A PositionControls instance exists for c: the camera's from construction,
\* an element's once add() made it.
Exists(c) == IF c = "camera" THEN TRUE ELSE hasControls[c]

\* The handler has run; a behaviour holds at most MaxSteps handlers.
Do(s) == steps < MaxSteps /\ Commit([s EXCEPT !.steps = @ + 1])

\* An event of the given type reaches c's handler only while c has that
\* listener registered (addEventListener / removeEventListener).
Dispatch(c, type, s, handled) ==
    IF type \in listeners[c] THEN Do(handled) ELSE Do(s)

MouseDown(c) ==
    \E p \in Points, which \in Buttons, veto \in BOOLEAN :
        /\ Exists(c)
        /\ Do(handleMouseDown(Begin("mousedown", c), c, p[1], p[2], which,
                              veto))

MouseMove(c) ==
    \E movement \in Movements, p \in Points :
        /\ Exists(c)
        /\ Dispatch(c, "mousemove", Begin("mousemove", c),
                    handleMouseMove(Begin("mousemove", c), c, movement,
                                    p[1], p[2]))

MouseUp(c) ==
    /\ Exists(c)
    /\ Dispatch(c, "mouseup", Begin("mouseup", c),
                handleMouseUp(Begin("mouseup", c), c))

TouchStart(c) ==
    \E p \in Points, touches \in TouchCounts, veto \in BOOLEAN :
        /\ Exists(c)
        /\ Do(handleTouchStart(BeginTouch("touchstart", c, touches), c,
                               p[1], p[2], veto))

TouchMove(c) ==
    \E p \in Points, touches \in TouchCounts, cancelable \in BOOLEAN :
        /\ Exists(c)
        /\ Dispatch(c, "touchmove", BeginTouch("touchmove", c, touches),
                    handleTouchMove(BeginTouch("touchmove", c, touches), c,
                                    cancelable, p[1], p[2]))

TouchEnd(c) ==
    /\ Exists(c)
    /\ Dispatch(c, "touchend", Begin("touchend", c),
                handleTouchEnd(Begin("touchend", c), c))

KeyDown(c) ==
    \E which \in Keys, veto \in BOOLEAN :
        /\ Exists(c)
        /\ Do(handleKeyDown(BeginKey("keydown", c, which), c, which, veto))

KeyUp(c) ==
    \E which \in Keys :
        /\ Exists(c)
        /\ Dispatch(c, "keyup", BeginKey("keyup", c, which),
                    handleKeyUp(BeginKey("keyup", c, which), c))

SetCameraPosition ==
    \E position \in CameraPositions :
        /\ steps < MaxSteps
        /\ Do(setCameraPosition(
             [Begin("setCameraPosition", "none") EXCEPT
                  !.call = [op |-> "setCameraPosition", ctrl |-> "none",
                            yaw |-> position[1], pitch |-> position[2]]],
             position[1], position[2]))

SetSourceElement ==
    \E arg \in PanoramaArgs :
        /\ steps < MaxSteps
        /\ Do(setSourceElement(Begin("setSourceElement", "none"), arg))

\* The host adds an element that is not in the scene and has no
\* controller from an earlier add().
Add(e) ==
    \E position \in ElementPositions, enableControls \in BOOLEAN :
        /\ \A i \in 1..Len(threeElements) : threeElements[i] # e
        /\ ~hasControls[e]
        /\ Do(add(Begin("add", "none"), e, position, enableControls))

\* A direct call of the public method move() of a controller whose
\* startY/startX a movestart has set.
ApiMove(c) ==
    \E movement \in Movements \ {<<>>} :
        /\ Exists(c)
        /\ startY[c] # <<>>
        /\ Do(move(Begin("move", c), c, movement[1], movement[2],
                   Friction(c)))

Next ==
    \/ \E c \in Ctrls : MouseDown(c)
    \/ \E c \in Ctrls : MouseMove(c)
    \/ \E c \in Ctrls : MouseUp(c)
    \/ \E c \in Ctrls : TouchStart(c)
    \/ \E c \in Ctrls : TouchMove(c)
    \/ \E c \in Ctrls : TouchEnd(c)
    \/ \E c \in Ctrls : KeyDown(c)
    \/ \E c \in Ctrls : KeyUp(c)
    \/ SetCameraPosition
    \/ SetSourceElement
    \/ Add("e1")

\* Input events and the coordinator's API.
Spec == Init /\ [][Next]_vars

NextApi == Next \/ \E c \in Ctrls : ApiMove(c)

\* The same, and direct calls of a controller's move().
SpecApi == Init /\ [][NextApi]_vars

\* A method or listener of the zoom controller begins: call records the
\* dollyScale argument, event.touches.length and the distance of two touches.
BeginZoom(op) ==
    [Begin(op, "zoom") EXCEPT
         !.call = [op |-> op, ctrl |-> "zoom", scale |-> <<>>,
                   touches |-> 0, distance |-> 0]]

\* A touch event of the zoom controller begins.
BeginZoomTouch(op, touches) ==
    [BeginZoom(op) EXCEPT
         !.call.touches = Len(touches),
         !.call.distance = IF Len(touches) = 2 THEN distance(touches) ELSE 0]

DollyIn ==
    \E dollyScale \in DollyScales :
        /\ Exists("camera")
        /\ Commit(dollyIn([BeginZoom("dollyIn") EXCEPT
                               !.call.scale = dollyScale], dollyScale))

DollyOut ==
    \E dollyScale \in DollyScales :
        /\ Exists("camera")
        /\ Commit(dollyOut([BeginZoom("dollyOut") EXCEPT
                                !.call.scale = dollyScale], dollyScale))

Wheel ==
    \E deltaY \in WheelDeltas :
        /\ Exists("camera")
        /\ Commit(onMouseWheel(BeginZoom("wheel"), deltaY))

ZoomTouchStart ==
    \E touches \in ZoomTouches :
        /\ Exists("camera")
        /\ Commit(onTouchStart(BeginZoomTouch("touchstart", touches),
                                touches))

ZoomTouchMove ==
    \E touches \in ZoomTouches :
        /\ Exists("camera")
        /\ Commit(onTouchMove(BeginZoomTouch("touchmove", touches),
                               touches))

ZoomKeyDown ==
    \E key \in ZoomKeys :
        /\ Exists("camera")
        /\ Commit(onKeyDown(BeginZoom("keydown"), key))

NextZoom ==
    \/ DollyIn
    \/ DollyOut
    \/ Wheel
    \/ ZoomTouchStart
    \/ ZoomTouchMove
    \/ ZoomKeyDown

\* The zoom controller of the camera: its methods and its listeners.
SpecZoom == Init /\ [][NextZoom]_vars

Update ==
    /\ builds < MaxBuilds
    /\ Commit(update(Begin("update", "none")))

UpdateCylinder ==
    /\ builds < MaxBuilds
    /\ Commit(updateCylinder(Begin("updateCylinder", "none")))

\* call records whether renderLoopId was set when startRendering() began.
StartRendering ==
    /\ Exists("camera")
    /\ Commit(startRendering(
           [Begin("startRendering", "none") EXCEPT
                !.call = [op |-> "startRendering", ctrl |-> "none",
                          rendering |-> renderLoopId # NULL]]))

StopRendering ==
    /\ Exists("camera")
    /\ Commit(stopRendering(Begin("stopRendering", "none")))

\* The browser runs the animation frame render() requested.
Frame ==
    \E id \in frames :
        /\ Exists("camera")
        /\ Commit(render([Begin("frame", "none") EXCEPT
                              !.frames = @ \ {id}]))

NextRender ==
    \/ Update
    \/ UpdateCylinder
    \/ StartRendering
    \/ StopRendering
    \/ Frame
    \/ SetSourceElement

\* Building the geometry and rendering frames, in a scene whose source is
\* changed.
SpecRender == Init /\ [][NextRender]_vars

NextZoomScene ==
    \/ DollyIn
    \/ DollyOut
    \/ Wheel
    \/ SetSourceElement

\* Zooming in a scene whose source, and with it the mode, is changed.
SpecZoomScene == Init /\ [][NextZoomScene]_vars

\* The host calls remove() with an element, registered or not.
Remove(x) ==
    /\ steps < MaxSteps
    /\ Do([remove(Begin("remove", "none"), x) EXCEPT
               !.call = [op |-> "remove", ctrl |-> "none", element |-> x]])

\* An element of the scene receives focus; its listener runs where add()
\* registered one.
Focus(e) ==
    \E defaultPrevented \in BOOLEAN :
        /\ \E i \in 1..Len(threeElements) : threeElements[i] = e
        /\ Do(LET s == [Begin("focus", e) EXCEPT
                            !.call = [op |-> "focus", ctrl |-> e,
                                      defaultPrevented |-> defaultPrevented]]
              IN  IF hasControls[e] THEN focus(s, e, defaultPrevented)
                  ELSE s)

SetPreventCameraMovement ==
    \E value \in BOOLEAN :
        /\ steps < MaxSteps
        /\ Do(setPreventCameraMovement(
                  Begin("setPreventCameraMovement", "none"), value))

NextElements ==
    \/ \E e \in ElementIds : Add(e)
    \/ \E x \in ElementIds : Remove(x)
    \/ \E e \in ElementIds : Focus(e)
    \/ SetPreventCameraMovement
    \/ SetSourceElement
    \/ \E c \in Ctrls : MouseDown(c)
    \/ \E c \in Ctrls : MouseMove(c)
    \/ \E c \in Ctrls : MouseUp(c)

\* Elements added, focused, dragged and removed.
SpecElements == Init /\ [][NextElements]_vars

\* ------------------------------------------------------------------ claims

Active(c) == controlActive[c] # "false"

\* The values of call.op that are input events.
InputEvents ==
    {"mousedown", "mousemove", "mouseup", "touchstart", "touchmove",
     "touchend", "keydown", "keyup"}

\* The handler just run emitted a move event of controller c.
MoveEmitted(c) ==
    \E i \in DOMAIN emitted :
        emitted[i].type = "move" /\ emitted[i].ctrl = c

\* The handler just run relayed a movestart that a host listener vetoed.
Vetoed ==
    \E i \in DOMAIN hostEvents :
        hostEvents[i].type = "movestart" /\ hostEvents[i].prevented

\* C1: a start() made while the controller has an active session returns
\* false and leaves alpha, beta, the origin point and the active modality as
\* they were.
C1_StartWhileActiveRejected ==
    [][\A c \in Ctrls :
         (call'.ctrl = c /\ startReturned' # "none" /\ controlActive[c] # "false")
         => /\ startReturned' = "false"
            /\ alpha'[c] = alpha[c]
            /\ beta'[c] = beta[c]
            /\ startPosition'[c] = startPosition[c]
            /\ controlActive'[c] = controlActive[c]]_vars

\* C1 witness: start() has just been refused for an active session (no
\* movestart was triggered) that has accumulated a rotation.
C1_Witness ==
    \E c \in Ctrls :
        /\ call.ctrl = c
        /\ startReturned = "false"
        /\ emitted = <<>>
        /\ Active(c)
        /\ alpha[c] # 0

\* C2: when a listener vetoes the movestart, start() returns false, no
\* session becomes active, and origin point, alpha and beta keep their
\* values; the controller is inactive, so a later start is not refused.
C2_VetoLeavesStateUnchanged ==
    [][\A c \in Ctrls :
         (call'.ctrl = c /\ Vetoed')
         => /\ startReturned' = "false"
            /\ controlActive'[c] = "false"
            /\ controlActive[c] = "false"
            /\ alpha'[c] = alpha[c]
            /\ beta'[c] = beta[c]
            /\ startPosition'[c] = startPosition[c]]_vars

\* C2 witness: a vetoed start() on a controller that still holds the alpha
\* and origin of an earlier session.
C2_Witness ==
    \E c \in Ctrls :
        /\ call.ctrl = c
        /\ Vetoed
        /\ startReturned = "false"
        /\ alpha[c] # 0
        /\ startPosition[c] # <<>>

\* C3: every move event a controller emits under mouse, touch and key
\* events lies after an accepted movestart and before the next movestop of
\* that controller.
C3_MoveOnlyInSession ==
    \A i \in DOMAIN emitted :
        emitted[i].type = "move" => emitted[i].inSession

\* C3 witness: a mousemove or touchmove of a running session has emitted a
\* move event.
C3_Witness ==
    \E c \in Ctrls :
        /\ MoveEmitted(c)
        /\ call.op \in {"mousemove", "touchmove"}
        /\ Active(c)

C5_SuspendedWhileAnyActive ==
    (\E c \in Ctrls : Active(c)) => preventDeviceOrientation

\* C6: while preventDeviceOrientation is set, setCameraPosition changes
\* neither the camera's yaw nor its pitch and emits no movestop.
C6_SetCameraPositionSuspended ==
    [][(call'.op = "setCameraPosition" /\ preventDeviceOrientation)
       => /\ cameraRotationY' = cameraRotationY
          /\ cameraRotationX' = cameraRotationX
          /\ hostEvents' = <<>>]_vars

\* C6 witness: setCameraPosition was called during a session with a yaw the
\* camera does not have.
C6_Witness ==
    /\ call.op = "setCameraPosition"
    /\ preventDeviceOrientation
    /\ Active("camera")
    /\ cameraRotationY # -call.yaw

\* C7: after every move event of the camera's controller the camera pitch p
\* has |p| <= MAX_PITCH - toRad(fov)/2 for the camera's current field of
\* view.
C7_PitchBoundFollowsFov ==
    MoveEmitted("camera")
    => /\ cameraRotationX
              <= MAX_PITCH - (toRad(cameraFov) \div FovUnit) \div 2
       /\ cameraRotationX
              >= -(MAX_PITCH - (toRad(cameraFov) \div FovUnit) \div 2)

\* C8: in panorama mode, however it was selected, a setCameraPosition(yaw,
\* pitch) that is not suspended sets the camera pitch to 0 and the camera
\* yaw to yaw.
C8_PanoramaPitchLock ==
    (call.op = "setCameraPosition" /\ ~preventDeviceOrientation
                                   /\ sceneMode = "panorama")
    => /\ cameraRotationX = 0
       /\ -cameraRotationY = call.yaw

\* C9: while a controller is in panorama mode, every move(dx, dy, f) emits
\* betaDelta = 0 and leaves beta as it was, and alphaDelta is dx/f.
C9_PanoramaSuppressesBeta ==
    \A i \in DOMAIN emitted :
        (emitted[i].type = "move" /\ controlsIsPanorama[emitted[i].ctrl])
        => /\ emitted[i].betaDelta = 0
           /\ emitted[i].beta = emitted[i].betaBefore
           /\ beta[emitted[i].ctrl] = emitted[i].betaBefore
           /\ emitted[i].alphaDelta * emitted[i].friction
                  = emitted[i].deltaX * 1000

\* C9 witness: a move with dx # 0 and dy # 0 in panorama mode, on a
\* controller whose beta was non-zero before.
C9_Witness ==
    \E i \in DOMAIN emitted :
        /\ emitted[i].type = "move"
        /\ controlsIsPanorama[emitted[i].ctrl]
        /\ emitted[i].deltaY # 0
        /\ emitted[i].deltaX # 0
        /\ emitted[i].betaBefore # 0

\* C10: after every move event of the camera's controller the yaw applied
\* to the camera lies in [0, 2 PI).
C10_CameraYawNormalized ==
    MoveEmitted("camera")
    => (0 <= cameraRotationY /\ cameraRotationY < TwoPi)

\* C10 witness: a camera move in a session started from a negative camera
\* yaw, with a negative accumulated alpha.
C10_Witness ==
    /\ MoveEmitted("camera")
    /\ startY["camera"][1] < 0
    /\ alpha["camera"] < 0

\* An element that add() has placed in the scene.
Placed(e) == \E i \in DOMAIN threeElements : threeElements[i] = e

\* C11: the yaw applied to an element placed with a start yaw in [0, 2 PI)
\* lies in [0, 2 PI) whatever sessions have dragged it.
C11_ElementYawNormalized ==
    \A e \in ElementIds :
        Placed(e) => (0 <= -rotationY[e] /\ -rotationY[e] < TwoPi)

\* C12: the pitch applied to an element placed with a start pitch in
\* [-PI/2, PI/2] lies in [-PI/2, PI/2] whatever sessions have dragged it.
C12_ElementPitchClamped ==
    \A e \in ElementIds :
        Placed(e) => (-MAX_PITCH <= rotationX[e] /\ rotationX[e] <= MAX_PITCH)

\* C13: the accumulated alpha a move event reports lies in [0, 2 PI).
C13_AlphaInRange ==
    \A i \in DOMAIN emitted :
        emitted[i].type = "move"
        => (0 <= emitted[i].alpha /\ emitted[i].alpha < TwoPi)

\* C14: outside panorama mode a move sets beta to
\* clamp(beta + dy/f, -PI/2, PI/2), whatever the size of dy, and beta lies
\* in [-PI/2, PI/2] in every state.
C14_BetaIsClampedSum ==
    /\ \A c \in Ctrls : -MAX_PITCH <= beta[c] /\ beta[c] <= MAX_PITCH
    /\ \A i \in DOMAIN emitted :
           (emitted[i].type = "move" /\ ~controlsIsPanorama[emitted[i].ctrl])
           => /\ emitted[i].beta
                    = clampBeta(emitted[i].betaBefore + emitted[i].betaDelta)
              /\ beta[emitted[i].ctrl] = emitted[i].beta

\* C15: after any dollyIn, dollyOut, wheel, pinch or '+'/'-' key, whatever
\* the scale, the camera's field of view lies in [minFov, maxFov], which is
\* [20, 75] for a sphere and [20, 53] for a panorama.
C15_FovWithinBounds ==
    LET upper == IF sceneMode = "panorama" THEN FOV_PANORAMA ELSE FOV_SPHERE
    IN  /\ maxFov = upper * FovUnit
        /\ minFov <= cameraFov
        /\ cameraFov <= upper * FovUnit

\* C15 witness: a dollyIn with scale 3 has been held at maxFov.
C15_Witness ==
    /\ call.op = "dollyIn"
    /\ call.scale = <<3, 1>>
    /\ dollyCalled = "in"
    /\ cameraFov = maxFov

\* C16 as stated: after enough successive dollyIn() calls with the default
\* scale the field of view is maxFov, and it stays there.
C16_DollyInConvergesToMaxFov ==
    dollyIns >= ConvergeCalls => cameraFov = maxFov

\* C16 amended: a dollyIn() with the default scale multiplies the field of
\* view by 0.95, so after enough successive calls (26 from 75 degrees) the
\* field of view is minFov, and it stays there.
C16_DollyInConvergesToMinFov ==
    dollyIns >= ConvergeCalls => cameraFov = minFov

\* C16 witness: the last of ConvergeCalls successive default dollyIn calls
\* on a sphere, whose field of view started above minFov.
C16_Witness ==
    /\ dollyIns >= ConvergeCalls
    /\ dollyCalled = "in"
    /\ maxFov = FOV_SPHERE * FovUnit
    /\ cameraFov = minFov

\* C17: the upper bound of the zoom controller is that of the scene's
\* current mode, 53 in panorama mode and 75 in sphere mode, also after
\* setSourceElement has changed the mode; so is the field of view a zoom
\* leaves.
C17_MaxFovMatchesMode ==
    LET upper == IF sceneMode = "panorama" THEN FOV_PANORAMA ELSE FOV_SPHERE
    IN  /\ maxFov = upper * FovUnit
        /\ call.ctrl = "zoom" => cameraFov <= upper * FovUnit

\* C18: while the arrow key K that started a keyboard session is held, a
\* keydown or keyup of any other key leaves the session active with K as
\* its key, and emits neither a movestop nor a move.
C18_OtherKeysLeaveSession ==
    [][\A c \in Ctrls :
         (/\ controlActive[c] = "keyboard"
          /\ keyStillDown[c] # NULL
          /\ call'.ctrl = c
          /\ call'.op \in {"keydown", "keyup"}
          /\ call'.which # keyStillDown[c])
         => /\ controlActive'[c] = "keyboard"
            /\ keyStillDown'[c] = keyStillDown[c]
            /\ emitted' = <<>>]_vars

\* C19: a touchstart or touchmove with two touch points on the screen
\* starts no session of a controller and emits no move event.
C19_TwoFingersIgnored ==
    (/\ call.op \in {"touchstart", "touchmove"}
     /\ call.ctrl \in Ctrls
     /\ call.touches = 2)
    => /\ startReturned # "true"
       /\ ~MoveEmitted(call.ctrl)

\* C20 as stated: a mousemove of a mouse session on the camera emits
\* alphaDelta = dx/f, and the yaw getCurrentPosition reports increases by
\* dx/f modulo 2 PI.
C20_ReportedYawIncreases ==
    [][\A i \in DOMAIN emitted' :
         (/\ call'.op = "mousemove"
          /\ emitted'[i].type = "move"
          /\ emitted'[i].ctrl = "camera")
         => /\ emitted'[i].alphaDelta * emitted'[i].friction
                   = emitted'[i].deltaX * 1000
            /\ JsRem(getCurrentPosition(St)'.yaw - getCurrentPosition(St).yaw
                         - emitted'[i].alphaDelta, TwoPi) = 0]_vars

\* C20 amended: such a mousemove emits alphaDelta = dx/f with the camera's
\* friction f, adds it to alpha modulo 2 PI, and sets the camera's
\* rotation.y to the rotation.y of the session's start plus alpha, in
\* [0, 2 PI); the yaw getCurrentPosition reports is -rotation.y, the
\* reported yaw of the session's start minus alpha modulo 2 PI.
C20_DragTurnsRotation ==
    [][\A i \in DOMAIN emitted' :
         (/\ call'.op = "mousemove"
          /\ emitted'[i].type = "move"
          /\ emitted'[i].ctrl = "camera")
         => /\ emitted'[i].friction = CAMERA_FRICTION
            /\ emitted'[i].alphaDelta * emitted'[i].friction
                   = emitted'[i].deltaX * 1000
            /\ JsRem(alpha'["camera"] - alpha["camera"]
                         - emitted'[i].alphaDelta, TwoPi) = 0
            /\ 0 <= cameraRotationY' /\ cameraRotationY' < TwoPi
            /\ JsRem(cameraRotationY' - startY["camera"][1]
                         - alpha'["camera"], TwoPi) = 0
            /\ JsRem(getCurrentPosition(St)'.yaw + startY["camera"][1]
                         + alpha'["camera"], TwoPi) = 0]_vars

\* C20 witness: the mouse has moved 60 pixels to the right of the point
\* where the session began, in a browser without movementX: alphaDelta is
\* 60/400.
C20_Witness ==
    \E i \in DOMAIN emitted :
        /\ call.op = "mousemove"
        /\ emitted[i].type = "move"
        /\ emitted[i].ctrl = "camera"
        /\ emitted[i].deltaX = 60
        /\ emitted[i].alphaDelta = 150
        /\ Active("camera")

\* The move events the handler just run emitted for controller c.
MovesOf(c) ==
    {i \in DOMAIN emitted : emitted[i].type = "move" /\ emitted[i].ctrl = c}

\* The angle of one key step of controller c: 1 / (0.025 * friction).
KeyStep(c) == 1000 \div KeyFriction(Friction(c))

\* The handler just run was a keydown of the key that holds c's keyboard
\* session.
SessionKeyDown(c) ==
    /\ call.op = "keydown"
    /\ call.ctrl = c
    /\ controlActive[c] = "keyboard"
    /\ keyStillDown[c] = call.which

\* C21 as stated: a keydown of the session's arrow key emits exactly one
\* move, with alphaDelta or betaDelta of magnitude 1/(0.025 * friction) and
\* the other 0, of opposite signs on the camera and on an element.
C21_KeyStepOnOneAxis ==
    \A c \in Ctrls :
        SessionKeyDown(c)
        => /\ Cardinality(MovesOf(c)) = 1
           /\ \A i \in MovesOf(c) :
                  /\ call.which \in {37, 100}
                        => /\ emitted[i].alphaDelta = Invert(c) * KeyStep(c)
                           /\ emitted[i].betaDelta = 0
                  /\ call.which \in {39, 102}
                        => /\ emitted[i].alphaDelta = -Invert(c) * KeyStep(c)
                           /\ emitted[i].betaDelta = 0
                  /\ call.which \in {38, 104}
                        => /\ emitted[i].alphaDelta = 0
                           /\ emitted[i].betaDelta = Invert(c) * KeyStep(c)
                  /\ call.which \in {40, 98}
                        => /\ emitted[i].alphaDelta = 0
                           /\ emitted[i].betaDelta = -Invert(c) * KeyStep(c)

\* C21 amended: such a keydown emits exactly one move, made from a delta of
\* 1 or -1 on one axis and 0 on the other, of opposite signs on the camera
\* and on an element; a left or right key gives alphaDelta of magnitude
\* 1/(0.025 * friction) and betaDelta 0, an up or down key gives alphaDelta
\* 0 and betaDelta of that magnitude, or 0 on a controller in panorama mode.
C21_KeyStepUnlessPanorama ==
    \A c \in Ctrls :
        SessionKeyDown(c)
        => /\ Cardinality(MovesOf(c)) = 1
           /\ \A i \in MovesOf(c) :
                  LET vertical == IF controlsIsPanorama[c] THEN 0
                                  ELSE KeyStep(c)
                  IN  /\ emitted[i].friction = KeyFriction(Friction(c))
                      /\ call.which \in {37, 100}
                            => /\ emitted[i].deltaX = Invert(c)
                               /\ emitted[i].deltaY = 0
                               /\ emitted[i].alphaDelta
                                      = Invert(c) * KeyStep(c)
                               /\ emitted[i].betaDelta = 0
                      /\ call.which \in {39, 102}
                            => /\ emitted[i].deltaX = -Invert(c)
                               /\ emitted[i].deltaY = 0
                               /\ emitted[i].alphaDelta
                                      = -Invert(c) * KeyStep(c)
                               /\ emitted[i].betaDelta = 0
                      /\ call.which \in {38, 104}
                            => /\ emitted[i].deltaX = 0
                               /\ emitted[i].deltaY = Invert(c)
                               /\ emitted[i].alphaDelta = 0
                               /\ emitted[i].betaDelta = Invert(c) * vertical
                      /\ call.which \in {40, 98}
                            => /\ emitted[i].deltaX = 0
                               /\ emitted[i].deltaY = -Invert(c)
                               /\ emitted[i].alphaDelta = 0
                               /\ emitted[i].betaDelta = -Invert(c) * vertical

\* C21 witness: the second keydown of the left arrow in an element's
\* keyboard session: alpha is two steps of -1/20.
C21_Witness ==
    /\ SessionKeyDown("e1")
    /\ call.which = 37
    /\ alpha["e1"] = -2 * KeyStep("e1")
    /\ KeyStep("e1") = 50

\* C27: whenever no controller of the scene has an active session,
\* preventDeviceOrientation is clear; so it is after a vetoed start and
\* after the end of every session.
C27_ClearWhenNoSession ==
    (\A c \in Ctrls : ~Active(c)) => ~preventDeviceOrientation

\* C30: every movestop about the camera that reaches the host, from the end
\* of a session of the camera's controller or from setCameraPosition,
\* carries the yaw and the pitch getCurrentPosition() returns.
C30_MovestopCarriesPosition ==
    \A i \in DOMAIN hostEvents :
        (hostEvents[i].type = "movestop"
             /\ hostEvents[i].ctrl \in {"camera", "none"})
        => /\ hostEvents[i].yaw = getCurrentPosition(St).yaw
           /\ hostEvents[i].pitch = getCurrentPosition(St).pitch

\* C29: the release event of the input that holds a controller's session
\* (mouseup, touchend, keyup) ends the session: the controller is inactive
\* afterwards; an inactive controller remembers no key as held, and a start
\* made on it that no listener vetoes is accepted.
C29_ReleaseEndsSession ==
    [][\A c \in Ctrls :
         /\ (/\ call'.ctrl = c
             /\ \/ call'.op = "mouseup" /\ controlActive[c] = "mouse"
                \/ call'.op = "touchend" /\ controlActive[c] = "touch"
                \/ call'.op = "keyup" /\ controlActive[c] = "keyboard")
            => controlActive'[c] = "false"
         /\ controlActive'[c] = "false" => keyStillDown'[c] = NULL
         /\ (/\ call'.ctrl = c
             /\ startReturned' # "none"
             /\ controlActive[c] = "false"
             /\ ~Vetoed')
            => startReturned' = "true"]_vars

\* C29 witness: a keyup has ended a keyboard session that had turned its
\* target.
C29_Witness ==
    \E c \in Ctrls :
        /\ call.op = "keyup"
        /\ call.ctrl = c
        /\ emitted # <<>>
        /\ emitted[1].type = "movestop"
        /\ emitted[1].inSession
        /\ ~Active(c)
        /\ keyStillDown[c] = NULL
        /\ alpha[c] # 0

\* C26: a touchmove with two touches compares their distance with
\* dollyStart: below it (ratio < 1) the handler makes exactly one dollyOut,
\* above it (ratio > 1, or any distance over a dollyStart of 0) exactly one
\* dollyIn, at it (or 0 over 0) it leaves the field of view as it was; no
\* touchmove changes dollyStart, and a touchmove with one touch changes
\* nothing.
C26_PinchDollies ==
    [][(call'.op = "touchmove" /\ call'.ctrl = "zoom")
       => LET d == call'.distance
              below == dollyStart # 0 /\ d < dollyStart
              above == IF dollyStart = 0 THEN d > 0 ELSE d > dollyStart
          IN  /\ dollyStart' = dollyStart
              /\ call'.touches # 2
                    => cameraFov' = cameraFov /\ dollyCalled' = "none"
              /\ (call'.touches = 2 /\ below)
                    => /\ dollyCalled' = "out"
                       /\ cameraFov'
                              = clampFov(St, (cameraFov * 100) \div 95)
              /\ (call'.touches = 2 /\ above)
                    => /\ dollyCalled' = "in"
                       /\ cameraFov'
                              = clampFov(St, (cameraFov * 95) \div 100)
              /\ (call'.touches = 2 /\ ~below /\ ~above)
                    => cameraFov' = cameraFov /\ dollyCalled' = "none"]_vars

\* C26 witness: a pinch begun with the fingers 10 apart has them 5 apart,
\* and the dollyOut it made widened a field of view that was below maxFov.
C26_Witness ==
    /\ call.op = "touchmove"
    /\ call.ctrl = "zoom"
    /\ call.touches = 2
    /\ call.distance = 5
    /\ dollyStart = 10
    /\ dollyCalled = "out"
    /\ minFov < cameraFov
    /\ cameraFov < maxFov

\* C24 as stated: at most one firstrender is emitted in the life of a
\* scene, however often the geometry is rebuilt and a frame rendered.
C24_FirstRenderOnce ==
    firstrenders <= 1

\* C24 amended: at most one firstrender is emitted per geometry build: the
\* first frame rendered after an update() or updateCylinder() emits it and
\* clears the flag, and no frame emits it again before the next build.
C24_FirstRenderOncePerBuild ==
    /\ firstrenders <= builds
    /\ triggerFirstRenderEvent = "true" => firstrenders < builds
    /\ \A i \in DOMAIN hostEvents :
           hostEvents[i].type = "firstrender"
           => /\ triggerFirstRenderEvent = "false"
              /\ call.op \in {"frame", "startRendering"}
              /\ Len(hostEvents) = 1

\* C24 witness: a frame is rendered with the flag clear after the second
\* build's firstrender.
C24_Witness ==
    /\ call.op = "frame"
    /\ hostEvents = <<>>
    /\ builds = 2
    /\ firstrenders = 2
    /\ triggerFirstRenderEvent = "false"

\* C28: remove(x) takes no placed element other than x out of the
\* collection, and leaves the collection as it was when x is not in it.
C28_RemoveOnlyNamed ==
    [][\A x \in ElementIds :
           (call'.op = "remove" /\ call'.element = x)
           => /\ \A e \in ElementIds \ {x} : Placed(e) => Placed(e)'
              /\ ~Placed(x) => threeElements' = threeElements]_vars

\* C23: after remove(e), e is not in the collection, and an input event on
\* an element that was removed moves no element, does not set
\* preventDeviceOrientation and relays nothing to the host.
C23_RemovedElementDetached ==
    [][/\ \A e \in ElementIds :
              (call'.op = "remove" /\ call'.element = e) => ~Placed(e)'
       /\ \A e \in ElementIds :
              (call'.op \in InputEvents /\ call'.ctrl = e /\ ~Placed(e))
              => /\ rotationY' = rotationY
                 /\ rotationX' = rotationX
                 /\ preventDeviceOrientation' => preventDeviceOrientation
                 /\ hostEvents' = <<>>]_vars

\* C22: a focus on a placed element, with or without controls, clears
\* preventCameraMovement; it leaves the camera as it was when the flag was
\* set, and turns the camera to the element's yaw and pitch when the flag
\* was clear, no controller was active and the event was not prevented.
C22_FocusRecentres ==
    [][\A e \in ElementIds :
           (call'.op = "focus" /\ call'.ctrl = e /\ Placed(e))
           => /\ ~preventCameraMovement'
              /\ preventCameraMovement
                 => /\ cameraRotationY' = cameraRotationY
                    /\ cameraRotationX' = cameraRotationX
              /\ (/\ ~preventCameraMovement
                  /\ ~call'.defaultPrevented
                  /\ \A c \in Ctrls : ~Active(c))
                 => /\ cameraRotationY' = rotationY[e]
                    /\ cameraRotationX' = rotationX[e]]_vars

\* C25: a handler in which an element's controller emits a move changes
\* the placement of that element only, not the camera's rotation or field
\* of view nor another element; one in which the camera's controller emits
\* a move changes no element's placement.
C25_MoveChangesOwnPlacementOnly ==
    [][/\ \A e \in ElementIds :
              (call'.op \in InputEvents /\ MoveEmitted(e)')
              => /\ cameraRotationY' = cameraRotationY
                 /\ cameraRotationX' = cameraRotationX
                 /\ cameraFov' = cameraFov
                 /\ \A o \in ElementIds \ {e} :
                        /\ rotationY'[o] = rotationY[o]
                        /\ rotationX'[o] = rotationX[o]
       /\ (call'.op \in InputEvents /\ MoveEmitted("camera")')
          => /\ rotationY' = rotationY
             /\ rotationX' = rotationX]_vars

\* C25 witness: two elements are placed and a drag has moved the first one
\* away from the placement the second one still has.
C25_Witness ==
    /\ Placed("e1")
    /\ Placed("e2")
    /\ call.op = "mousemove"
    /\ MoveEmitted("e1")
    /\ rotationY["e1"] # rotationY["e2"]
    /\ rotationY["e2"] = -500

\* C31: the coordinator's isPanorama is truthy exactly when its camera
\* controller's isPanorama is: setCameraPosition locks the pitch exactly
\* when the controller suppresses vertical deltas.
C31_PanoramaFlagsAgree ==
    (isPanorama = "true") <=> controlsIsPanorama["camera"]

\* C32: the browser never holds more than one render callback, and the one
\* it holds is the one renderLoopId names; startRendering() called while
\* renderLoopId is set requests nothing; after stopRendering() no callback
\* is held, so no frame is rendered before the next startRendering().
C32_OneFramePending ==
    [][/\ Cardinality(frames') <= 1
       /\ frames' \subseteq {renderLoopId'}
       /\ (call'.op = "startRendering" /\ renderLoopId # NULL)
          => /\ frames' = frames
             /\ renderLoopId' = renderLoopId
       /\ call'.op = "stopRendering"
          => /\ frames' = {}
             /\ renderLoopId' = NULL
       /\ call'.op = "frame" => renderLoopId # NULL]_vars

\* C32 witness: startRendering() was called while a frame was requested,
\* after a frame that triggered firstrender, and one callback is held.
C32_Witness ==
    /\ call.op = "startRendering"
    /\ call.rendering
    /\ Cardinality(frames) = 1
    /\ frames = {renderLoopId}
    /\ firstrenders = 1

\* C33: a controller remembers a held key only while its active modality
\* is "keyboard": keyStillDown is null while the controller is inactive or
\* in a mouse or touch session.
C33_KeyHeldOnlyInKeyboardSession ==
    \A c \in Ctrls :
        keyStillDown[c] # NULL => controlActive[c] = "keyboard"

\* C33 witness: a mousedown reached the camera's controller while it held
\* the left arrow key in a keyboard session, and was refused.
C33_Witness ==
    /\ call.op = "mousedown"
    /\ call.ctrl = "camera"
    /\ startReturned = "false"
    /\ keyStillDown["camera"] = 37
    /\ controlActive["camera"] = "keyboard"

====
